---- MODULE Spec2Model ----
(***************************************************************************)
(* lws-minimal-mqtt-client: the per-connection session state machine of    *)
(* callback_mqtt(), the run-level flags `interrupted` and `bad`, and the   *)
(* event loop of main().  The transport (libwebsockets) is the             *)
(* environment: it delivers callbacks and accepts or rejects sends.        *)
(***************************************************************************)
EXTENDS Integers, Sequences, FiniteSets, TLC

\* ---- enum of session states ------------------------------------------
STATE_SUBSCRIBE    == 0
STATE_PUBLISH_QOS0 == 1
STATE_WAIT_ACK0    == 2
STATE_PUBLISH_QOS1 == 3
STATE_WAIT_ACK1    == 4
STATE_TEST_FINISH  == 5

QOS0 == 0
QOS1 == 1

\* ---- program constants ------------------------------------------------
TEST_STRING_LEN == 1337
CHUNK_MAX       == 300
RETRY_LIMIT     == 3
\* size_t arithmetic is modulo SIZE_MOD (the smallest width C allows)
SIZE_MOD        == 65536

\* ---- bounds of the feeder specification ------------------------------
MaxLen   == 8
MaxChunk == 4

VARIABLES
    pss,            \* struct pss: [state, pos, retries]
    interrupted,    \* static int interrupted
    bad,            \* static int bad = 1
    n,              \* main(): last return value of lws_service()
    pc,             \* main(): "loop" | "exited"   (feeder runs: "feed")
    exit_code,      \* main(): value returned by main, -1 while running
    wsi,            \* the client connection: "none"|"open"|"closing"|"closed"
    payload_len,    \* length of the payload being published
    chunk_max,      \* largest chunk handed to one publish call
    ev,             \* reason of the last callback dispatched
    ret,            \* return value of the last callback dispatched
    act,            \* send primitive invoked by the last callback
    subs,           \* number of lws_mqtt_client_send_subcribe() calls
    msg,            \* publish chunks accepted since the last final chunk
    stage,          \* progress along the legitimate test sequence, 0..5
    run,            \* consecutive RESENDs since WAIT_ACK1 with retries 0
    send_failed,    \* some send primitive has returned failure
    late_sends      \* send primitive calls made after such a failure

vars == <<pss, interrupted, bad, n, pc, exit_code, wsi, payload_len,
          chunk_max, ev, ret, act, subs, msg, stage, run,
          send_failed, late_sends>>

Reasons == {"ERROR", "CLOSED", "ESTABLISHED", "SUBSCRIBED", "WRITEABLE",
            "ACK", "RESEND", "RX"}

NoAct == [type |-> "none", off |-> 0, len |-> 0, qos |-> 0,
          final |-> FALSE, ok |-> TRUE]

\* ---- helpers over the chunk log --------------------------------------
RECURSIVE SumLen(_, _)
SumLen(m, k) == IF k = 0 THEN 0 ELSE SumLen(m, k - 1) + m[k].len

LastFinal(m) == m # <<>> /\ m[Len(m)].final

NumFinal(m) == Cardinality({i \in 1..Len(m) : m[i].final})

\* chunks at contiguous offsets from 0, one QoS, final flag exactly on the
\* chunk that reaches the payload length
WellFormed(m) ==
    \A i \in 1..Len(m) :
        /\ m[i].off = SumLen(m, i - 1)
        /\ m[i].qos = m[1].qos
        /\ (m[i].final <=> m[i].off + m[i].len = payload_len)

WholeMessage(m, q) ==
    /\ LastFinal(m)
    /\ WellFormed(m)
    /\ m[1].qos = q
    /\ SumLen(m, Len(m)) = payload_len

\* ---- the chunk feeder -------------------------------------------------
USub(a, b) == (a - b + SIZE_MOD) % SIZE_MOD

\* variant: the chunk is not clamped to what is left of the payload
ChunkLen_NoClamp(p) == chunk_max

\* variant: the clamp comparison is reversed
ChunkLen_Reversed(p) ==
    IF chunk_max < USub(payload_len, p) THEN USub(payload_len, p)
    ELSE chunk_max

ChunkLen(p) ==
    IF chunk_max > USub(payload_len, p) THEN USub(payload_len, p)
    ELSE chunk_max

IsFinal(p, c) == ((p + c) % SIZE_MOD) = payload_len

\* the log restarts after a final chunk; once its framing is broken only
\* the final chunk that closes the broken message is still recorded
AppendChunk(m, a) ==
    IF LastFinal(m) THEN <<a>>
    ELSE IF WellFormed(m) \/ a.final THEN Append(m, a)
    ELSE m

\* ---- callback_mqtt: one operator per case ----------------------------
CbConnectionError ==
    /\ interrupted' = 1
    /\ ret' = 0
    /\ act' = NoAct
    /\ UNCHANGED <<pss, bad, subs, msg, late_sends>>

\* variant: the closure does not stop the loop
CbClosed_NoInterrupt ==
    /\ ret' = 0
    /\ act' = NoAct
    /\ UNCHANGED <<interrupted, pss, bad, subs, msg, late_sends>>

CbClosed ==
    /\ interrupted' = 1
    /\ ret' = 0
    /\ act' = NoAct
    /\ UNCHANGED <<pss, bad, subs, msg, late_sends>>

\* lws_callback_on_writable() only asks the transport for a writable
\* callback, which the transport may deliver at any time anyway
CbEstablished ==
    /\ ret' = 0
    /\ act' = NoAct
    /\ UNCHANGED <<pss, interrupted, bad, subs, msg, late_sends>>

CbSubscribed ==
    /\ ret' = 0
    /\ act' = NoAct
    /\ UNCHANGED <<pss, interrupted, bad, subs, msg, late_sends>>

CbRx ==
    /\ ret' = 0
    /\ act' = NoAct
    /\ UNCHANGED <<pss, interrupted, bad, subs, msg, late_sends>>

WriteableSubscribe(sendfail) ==
    /\ act' = [type |-> "subscribe", off |-> 0, len |-> 0, qos |-> 0,
               final |-> FALSE, ok |-> ~sendfail]
    /\ subs' = subs + 1
    /\ late_sends' = IF send_failed THEN late_sends + 1 ELSE late_sends
    /\ IF sendfail
       THEN ret' = -1 /\ UNCHANGED pss
       ELSE ret' = 0 /\ pss' = [pss EXCEPT !.state = @ + 1]
    /\ UNCHANGED <<msg, interrupted, bad>>

\* variant: the result of the publish send is ignored (return 0)
WriteablePublish_IgnoreFail(sendfail) ==
    LET chunk == ChunkLen(pss.pos)
        a == [type |-> "publish", off |-> pss.pos, len |-> chunk,
              qos |-> IF pss.state = STATE_PUBLISH_QOS0 THEN QOS0 ELSE QOS1,
              final |-> IsFinal(pss.pos, chunk), ok |-> ~sendfail]
        np == (pss.pos + chunk) % SIZE_MOD
    IN  /\ act' = a
        /\ late_sends' = IF send_failed THEN late_sends + 1 ELSE late_sends
        /\ IF sendfail
           THEN ret' = 0 /\ UNCHANGED <<pss, msg>>
           ELSE /\ ret' = 0
                /\ msg' = AppendChunk(msg, [off |-> a.off, len |-> a.len,
                                            qos |-> a.qos, final |-> a.final])
                /\ pss' = IF np = payload_len
                          THEN [pss EXCEPT !.pos = 0, !.state = @ + 1]
                          ELSE [pss EXCEPT !.pos = np]
        /\ UNCHANGED <<subs, interrupted, bad>>

\* variant: an empty chunk is not sent
WriteablePublish_SkipEmpty(sendfail) ==
    LET chunk == ChunkLen(pss.pos)
        a == [type |-> "publish", off |-> pss.pos, len |-> chunk,
              qos |-> IF pss.state = STATE_PUBLISH_QOS0 THEN QOS0 ELSE QOS1,
              final |-> IsFinal(pss.pos, chunk), ok |-> ~sendfail]
        np == (pss.pos + chunk) % SIZE_MOD
    IN  IF chunk = 0
        THEN /\ ret' = 0
             /\ act' = NoAct
             /\ UNCHANGED <<pss, msg, late_sends, subs, interrupted, bad>>
        ELSE /\ act' = a
             /\ late_sends' = IF send_failed THEN late_sends + 1
                              ELSE late_sends
             /\ IF sendfail
                THEN ret' = -1 /\ UNCHANGED <<pss, msg>>
                ELSE /\ ret' = 0
                     /\ msg' = AppendChunk(msg, [off |-> a.off,
                                  len |-> a.len, qos |-> a.qos,
                                  final |-> a.final])
                     /\ pss' = IF np = payload_len
                               THEN [pss EXCEPT !.pos = 0, !.state = @ + 1]
                               ELSE [pss EXCEPT !.pos = np]
             /\ UNCHANGED <<subs, interrupted, bad>>

\* STATE_PUBLISH_QOS0 / STATE_PUBLISH_QOS1: send the next chunk
WriteablePublish(sendfail) ==
    LET chunk == ChunkLen(pss.pos)
        a == [type |-> "publish", off |-> pss.pos, len |-> chunk,
              qos |-> IF pss.state = STATE_PUBLISH_QOS0 THEN QOS0 ELSE QOS1,
              final |-> IsFinal(pss.pos, chunk), ok |-> ~sendfail]
        np == (pss.pos + chunk) % SIZE_MOD
    IN  /\ act' = a
        /\ late_sends' = IF send_failed THEN late_sends + 1 ELSE late_sends
        /\ IF sendfail
           THEN ret' = -1 /\ UNCHANGED <<pss, msg>>
           ELSE /\ ret' = 0
                /\ msg' = AppendChunk(msg, [off |-> a.off, len |-> a.len,
                                            qos |-> a.qos, final |-> a.final])
                /\ pss' = IF np = payload_len
                          THEN [pss EXCEPT !.pos = 0, !.state = @ + 1]
                          ELSE [pss EXCEPT !.pos = np]
        /\ UNCHANGED <<subs, interrupted, bad>>

\* variant: the waiting states fall through to the publish case
WriteableDefault_Fallthrough == WriteablePublish(FALSE)

WriteableDefault ==
    /\ ret' = 0
    /\ act' = NoAct
    /\ UNCHANGED <<pss, interrupted, bad, subs, msg, late_sends>>

CbWriteable(sendfail) ==
    IF pss.state = STATE_SUBSCRIBE THEN WriteableSubscribe(sendfail)
    ELSE IF pss.state \in {STATE_PUBLISH_QOS0, STATE_PUBLISH_QOS1}
         THEN WriteablePublish(sendfail)
    ELSE WriteableDefault

\* variant: the finish test reads the state before it is incremented
CbAck_TestBeforeIncrement ==
    /\ pss' = [pss EXCEPT !.state = @ + 1]
    /\ IF pss.state # STATE_TEST_FINISH
       THEN UNCHANGED <<bad, interrupted>>
       ELSE bad' = 0 /\ interrupted' = 1
    /\ ret' = 0
    /\ act' = NoAct
    /\ UNCHANGED <<subs, msg, late_sends>>

\* variant: the test is finished as soon as the QoS1 leg is entered
CbAck_FinishEarly ==
    /\ pss' = [pss EXCEPT !.state = @ + 1]
    /\ IF pss.state + 1 < STATE_PUBLISH_QOS1
       THEN UNCHANGED <<bad, interrupted>>
       ELSE bad' = 0 /\ interrupted' = 1
    /\ ret' = 0
    /\ act' = NoAct
    /\ UNCHANGED <<subs, msg, late_sends>>

\* variant: finishing clears bad but does not stop the loop
CbAck_NoInterrupt ==
    /\ pss' = [pss EXCEPT !.state = @ + 1]
    /\ IF pss.state + 1 # STATE_TEST_FINISH
       THEN UNCHANGED bad
       ELSE bad' = 0
    /\ UNCHANGED interrupted
    /\ ret' = 0
    /\ act' = NoAct
    /\ UNCHANGED <<subs, msg, late_sends>>

CbAck ==
    /\ pss' = [pss EXCEPT !.state = @ + 1]
    /\ IF pss.state + 1 # STATE_TEST_FINISH
       THEN UNCHANGED <<bad, interrupted>>
       ELSE bad' = 0 /\ interrupted' = 1
    /\ ret' = 0
    /\ act' = NoAct
    /\ UNCHANGED <<subs, msg, late_sends>>

\* variant: the ceiling test is off by one (retries > 3)
CbResend_OffByOne ==
    /\ IF pss.retries + 1 = RETRY_LIMIT + 1
       THEN /\ interrupted' = 1
            /\ pss' = [pss EXCEPT !.retries = @ + 1]
       ELSE /\ pss' = [pss EXCEPT !.retries = @ + 1, !.state = @ - 1,
                                  !.pos = 0]
            /\ UNCHANGED interrupted
    /\ ret' = 0
    /\ act' = NoAct
    /\ UNCHANGED <<bad, subs, msg, late_sends>>

\* variant: the break after interrupted = 1 is missing
CbResend_NoBreak ==
    /\ IF pss.retries + 1 = RETRY_LIMIT
       THEN interrupted' = 1
       ELSE UNCHANGED interrupted
    /\ pss' = [pss EXCEPT !.retries = @ + 1, !.state = @ - 1, !.pos = 0]
    /\ ret' = 0
    /\ act' = NoAct
    /\ UNCHANGED <<bad, subs, msg, late_sends>>

\* if (++pss->retries == 3) { interrupted = 1; break; }
\* pss->state--; pss->pos = 0;
CbResend ==
    /\ IF pss.retries + 1 = RETRY_LIMIT
       THEN /\ interrupted' = 1
            /\ pss' = [pss EXCEPT !.retries = @ + 1]
       ELSE /\ pss' = [pss EXCEPT !.retries = @ + 1, !.state = @ - 1,
                                  !.pos = 0]
            /\ UNCHANGED interrupted
    /\ ret' = 0
    /\ act' = NoAct
    /\ UNCHANGED <<bad, subs, msg, late_sends>>

callback_mqtt(reason, sendfail) ==
    CASE reason = "ERROR"       -> CbConnectionError
      [] reason = "CLOSED"      -> CbClosed
      [] reason = "ESTABLISHED" -> CbEstablished
      [] reason = "SUBSCRIBED"  -> CbSubscribed
      [] reason = "WRITEABLE"   -> CbWriteable(sendfail)
      [] reason = "ACK"         -> CbAck
      [] reason = "RESEND"      -> CbResend
      [] reason = "RX"          -> CbRx

\* ---- the transport ----------------------------------------------------
\* callbacks the transport may deliver on the connection: anything while
\* it is open; after a callback returned nonzero the connection is being
\* closed and only the closure is delivered
Deliverable ==
    IF wsi = "open" THEN Reasons
    ELSE IF wsi = "closing" THEN {"CLOSED"}
    ELSE {}

\* ---- observers --------------------------------------------------------
NextStage(reason) ==
    IF stage = 0 /\ act'.type = "subscribe" /\ act'.ok THEN 1
    ELSE IF stage = 1 /\ act'.type = "publish" /\ act'.ok
                      /\ WholeMessage(msg', QOS0) THEN 2
    ELSE IF stage = 2 /\ reason = "ACK" THEN 3
    ELSE IF stage = 3 /\ act'.type = "publish" /\ act'.ok
                      /\ WholeMessage(msg', QOS1) THEN 4
    ELSE IF stage = 4 /\ reason = "ACK" /\ pss.state = STATE_WAIT_ACK1 THEN 5
    ELSE stage

NextRun(reason) ==
    IF reason # "RESEND" THEN 0
    ELSE IF run > 0 THEN run + 1
    ELSE IF pss.state = STATE_WAIT_ACK1 /\ pss.retries = 0 THEN 1
    ELSE 0

\* variant: the loop condition does not look at interrupted
LoopRunning_IgnoreInterrupt == pc = "loop" /\ n >= 0

\* ---- main(): event loop ----------------------------------------------
LoopRunning == pc = "loop" /\ n >= 0 /\ interrupted = 0

\* one lws_service() call that dispatches one callback
Service(reason, sendfail) ==
    /\ LoopRunning
    /\ reason \in Deliverable
    /\ callback_mqtt(reason, sendfail)
    /\ ev' = reason
    /\ n' = 0
    /\ wsi' = IF reason = "CLOSED" THEN "closed"
              ELSE IF ret' # 0 THEN "closing"
              ELSE wsi
    /\ stage' = NextStage(reason)
    /\ run' = NextRun(reason)
    /\ send_failed' = (send_failed \/ ~act'.ok)
    /\ UNCHANGED <<pc, exit_code, payload_len, chunk_max>>

\* lws_service() returns a negative value without dispatching: the loop
\* condition fails and main returns bad
ServiceFail ==
    /\ LoopRunning
    /\ n' = -1
    /\ pc' = "exited"
    /\ exit_code' = bad
    /\ UNCHANGED <<pss, interrupted, bad, wsi, payload_len, chunk_max, ev,
                   ret, act, subs, msg, stage, run, send_failed, late_sends>>

\* system_notify_cb() at OPERATIONAL: connect_client()
system_notify_cb(connect_ok) ==
    /\ LoopRunning
    /\ wsi = "none"
    /\ IF connect_ok
       THEN wsi' = "open" /\ UNCHANGED interrupted
       ELSE interrupted' = 1 /\ UNCHANGED wsi
    /\ n' = 0
    /\ UNCHANGED <<pss, bad, pc, exit_code, payload_len, chunk_max, ev, ret,
                   act, subs, msg, stage, run, send_failed, late_sends>>

sigint_handler ==
    /\ pc = "loop"
    /\ interrupted = 0
    /\ interrupted' = 1
    /\ UNCHANGED <<pss, bad, n, pc, exit_code, wsi, payload_len, chunk_max,
                   ev, ret, act, subs, msg, stage, run, send_failed,
                   late_sends>>

\* the loop condition fails: report and return bad
LoopExit ==
    /\ pc = "loop"
    /\ ~(n >= 0 /\ interrupted = 0)
    /\ pc' = "exited"
    /\ exit_code' = bad
    /\ UNCHANGED <<pss, interrupted, bad, n, wsi, payload_len, chunk_max,
                   ev, ret, act, subs, msg, stage, run, send_failed,
                   late_sends>>

InitCommon ==
    /\ interrupted = 0
    /\ bad = 1
    /\ n = 0
    /\ exit_code = -1
    /\ wsi = "none"
    /\ ev = "NONE"
    /\ ret = 0
    /\ act = NoAct
    /\ subs = 0
    /\ msg = <<>>
    /\ stage = 0
    /\ run = 0
    /\ send_failed = FALSE
    /\ late_sends = 0

Init ==
    /\ InitCommon
    /\ pss = [state |-> STATE_SUBSCRIBE, pos |-> 0, retries |-> 0]
    /\ pc = "loop"
    /\ payload_len = TEST_STRING_LEN
    /\ chunk_max = CHUNK_MAX

Next ==
    \/ \E ok \in BOOLEAN : system_notify_cb(ok)
    \/ \E r \in Reasons, f \in BOOLEAN : Service(r, f)
    \/ ServiceFail
    \/ sigint_handler
    \/ LoopExit

Spec == Init /\ [][Next]_vars

\* ---- the chunk feeder on its own -------------------------------------
FeedInputs ==
    ((0..MaxLen) \X (1..MaxChunk)) \cup {<<TEST_STRING_LEN, CHUNK_MAX>>}

FeedInit ==
    /\ InitCommon
    /\ pss = [state |-> STATE_PUBLISH_QOS0, pos |-> 0, retries |-> 0]
    /\ pc = "feed"
    /\ \E io \in FeedInputs : payload_len = io[1] /\ chunk_max = io[2]

\* one application of the feeder at the cursor, cursor += chunk
FeedStep ==
    /\ pc = "feed"
    /\ ~LastFinal(msg)
    /\ LET chunk == ChunkLen(pss.pos)
       IN  /\ msg' = Append(msg, [off |-> pss.pos, len |-> chunk,
                                  qos |-> QOS0,
                                  final |-> IsFinal(pss.pos, chunk)])
           /\ pss' = [pss EXCEPT !.pos = (@ + chunk) % SIZE_MOD]
    /\ UNCHANGED <<interrupted, bad, n, pc, exit_code, wsi, payload_len,
                   chunk_max, ev, ret, act, subs, stage, run, send_failed,
                   late_sends>>

FeedNext == FeedStep

FeedSpec == FeedInit /\ [][FeedNext]_vars

\* ---- the undisturbed run ----------------------------------------------
\* the connection attempt succeeds, every send is accepted, the transport
\* delivers writable and informational callbacks at any time and an ack
\* only while the session waits for one; no RESEND, closure, error or
\* signal occurs
LiveInit ==
    /\ InitCommon
    /\ pss = [state |-> STATE_SUBSCRIBE, pos |-> 0, retries |-> 0]
    /\ pc = "loop"
    /\ \E io \in FeedInputs : payload_len = io[1] /\ chunk_max = io[2]

LiveConnect == system_notify_cb(TRUE)

LiveWriteable == Service("WRITEABLE", FALSE)

LiveInfo == \E r \in {"ESTABLISHED", "SUBSCRIBED", "RX"} : Service(r, FALSE)

LiveAck ==
    /\ pss.state \in {STATE_WAIT_ACK0, STATE_WAIT_ACK1}
    /\ Service("ACK", FALSE)

LiveNext ==
    \/ LiveConnect
    \/ LiveWriteable
    \/ LiveInfo
    \/ LiveAck
    \/ LoopExit

LiveSpec ==
    /\ LiveInit
    /\ [][LiveNext]_vars
    /\ WF_vars(LiveConnect)
    /\ WF_vars(LiveWriteable)
    /\ WF_vars(LiveAck)
    /\ WF_vars(LoopExit)

\* ---- the program with an empty payload --------------------------------
ZeroInit ==
    /\ InitCommon
    /\ pss = [state |-> STATE_SUBSCRIBE, pos |-> 0, retries |-> 0]
    /\ pc = "loop"
    /\ payload_len = 0
    /\ chunk_max = CHUNK_MAX

ZeroSpec == ZeroInit /\ [][Next]_vars

TypeOK ==
    /\ pss.state \in -2..STATE_TEST_FINISH
    /\ pss.pos \in 0..payload_len
    /\ pss.retries \in 0..RETRY_LIMIT
    /\ interrupted \in {0, 1}
    /\ bad \in {0, 1}

\* ---- properties -------------------------------------------------------
\* a step that dispatches a WRITEABLE callback
WriteableDispatched == \E f \in BOOLEAN : Service("WRITEABLE", f)

\* a step that dispatches a WRITEABLE callback whose send is rejected
SendRejected ==
    /\ pss.state \in {STATE_SUBSCRIBE, STATE_PUBLISH_QOS0, STATE_PUBLISH_QOS1}
    /\ Service("WRITEABLE", TRUE)

\* the last callback dispatched was one of the fatal events
FatalEvent ==
    \/ ev \in {"ERROR", "CLOSED"}
    \/ (ev = "RESEND" /\ pss.retries = RETRY_LIMIT)

\* C1: the session state never moves backward from one step to the next,
\* except for a RESEND received in STATE_WAIT_ACK1, which moves it back to
\* STATE_PUBLISH_QOS1.
C1_Monotonic ==
    [][\/ pss'.state >= pss.state
       \/ /\ pss.state = STATE_WAIT_ACK1
          /\ ev' = "RESEND"
          /\ pss'.state = STATE_PUBLISH_QOS1]_vars

\* C2: bad is cleared only if the session subscribed, then sent the whole
\* payload at QoS0, then got an ack, then sent the whole payload at QoS1,
\* then got an ack while in STATE_WAIT_ACK1.
C2_BadClearedOnlyLegit == bad = 0 => stage = 5

\* C3: retries never exceeds 3, and once it is 3 the run is terminally
\* failed: interrupted and bad are set, the session is not touched again and
\* no subscribe or publish is issued afterwards.
C3_RetryCeiling ==
    /\ [](/\ pss.retries <= RETRY_LIMIT
          /\ (pss.retries = RETRY_LIMIT =>
                interrupted = 1 /\ bad = 1 /\ act = NoAct)
          /\ (pss.retries = RETRY_LIMIT /\ pc = "exited" => exit_code = 1))
    /\ [][pss.retries = RETRY_LIMIT =>
            (pss' = pss /\ act' = act /\ subs' = subs /\ msg' = msg)]_vars

C3_Witness ==
    /\ pss.retries = RETRY_LIMIT
    /\ ev = "RESEND"
    /\ msg # <<>>
    /\ pc = "exited"

C5_WriteableNoop ==
    [][(/\ pss.state \in {STATE_WAIT_ACK0, STATE_WAIT_ACK1,
                          STATE_TEST_FINISH}
        /\ WriteableDispatched) =>
          (/\ pss' = pss
           /\ bad' = bad
           /\ interrupted' = interrupted
           /\ subs' = subs
           /\ msg' = msg
           /\ act' = NoAct
           /\ ret' = 0)]_vars

C5_Witness ==
    /\ ev = "WRITEABLE"
    /\ act = NoAct
    /\ pss.state = STATE_WAIT_ACK1
    /\ msg # <<>>

\* C6: applying the feeder repeatedly from cursor 0 gives chunks of size
\* min(C, L - cursor) at contiguous offsets whose sizes sum to L, exactly
\* one of them final, the one ending at L; for L = 1337 and C = 300 these
\* are the sizes 300,300,300,300,137 with the flag only on the fifth.
C6_FeederPartition ==
    /\ pss.pos = SumLen(msg, Len(msg))
    /\ pss.pos <= payload_len
    /\ \A i \in 1..Len(msg) :
          /\ msg[i].off = SumLen(msg, i - 1)
          /\ msg[i].len = IF chunk_max < payload_len - msg[i].off
                          THEN chunk_max ELSE payload_len - msg[i].off
          /\ (msg[i].final <=> msg[i].off + msg[i].len = payload_len)
          /\ (msg[i].final => i = Len(msg))
          /\ (~msg[i].final => msg[i].len >= 1)
    /\ (LastFinal(msg) =>
          /\ NumFinal(msg) = 1
          /\ SumLen(msg, Len(msg)) = payload_len)
    /\ (pss.pos = payload_len /\ msg # <<>> => LastFinal(msg))
    /\ (payload_len = 1337 /\ chunk_max = 300 /\ LastFinal(msg) =>
          /\ [i \in 1..Len(msg) |-> msg[i].len] = <<300, 300, 300, 300, 137>>
          /\ [i \in 1..Len(msg) |-> msg[i].final] =
                <<FALSE, FALSE, FALSE, FALSE, TRUE>>)

C6_Witness ==
    /\ payload_len = 1337
    /\ chunk_max = 300
    /\ Len(msg) = 5
    /\ LastFinal(msg)

\* C7: every message published is sent as chunks at contiguous offsets
\* from 0 that cover the payload, all at one QoS, with the final flag
\* exactly on the chunk that reaches the payload length.
C7_MessagesWellFormed == WellFormed(msg)

\* C8: the subscribe request is issued at most once, and no publish chunk is
\* sent before it.
C8_SubscribeOnceFirst ==
    /\ subs <= 1
    /\ (act.type = "publish" => subs = 1)

\* C9: from STATE_WAIT_ACK1 with retries 0, the first two of three
\* consecutive RESENDs reset pos to 0 and step the state back, the third sets
\* interrupted, leaves bad set and leaves state and pos alone.
C9_ThreeResends ==
    /\ [](run = RETRY_LIMIT =>
            /\ interrupted = 1
            /\ bad = 1
            /\ (pc = "exited" => exit_code = 1))
    /\ [][run' = run + 1 =>
            IF run' < RETRY_LIMIT
            THEN /\ pss'.pos = 0
                 /\ pss'.state = pss.state - 1
                 /\ pss'.retries = run'
                 /\ interrupted' = interrupted
                 /\ bad' = 1
            ELSE /\ pss'.retries = RETRY_LIMIT
                 /\ pss'.state = pss.state
                 /\ pss'.pos = pss.pos
                 /\ interrupted' = 1
                 /\ bad' = 1]_vars

C9_Witness == run = RETRY_LIMIT /\ pc = "exited" /\ exit_code = 1

C11_EventuallyFinished ==
    <>(/\ pss.state = STATE_TEST_FINISH
       /\ bad = 0
       /\ interrupted = 1
       /\ pc = "exited"
       /\ exit_code = 0)

C11_Witness ==
    /\ pss.state = STATE_TEST_FINISH
    /\ bad = 0
    /\ interrupted = 1
    /\ stage = 5
    /\ subs = 1
    /\ WholeMessage(msg, QOS1)

\* C12: with a payload of length 0 a WRITEABLE in a publishing state sends
\* one chunk of length 0 at offset 0 with the final flag set, and the
\* session moves on to the wait state of that leg.
C12_EmptyPayload ==
    /\ [](payload_len = 0 /\ pss.pos = 0)
    /\ [][(/\ pss.state \in {STATE_PUBLISH_QOS0, STATE_PUBLISH_QOS1}
           /\ Service("WRITEABLE", FALSE)) =>
            (/\ act' = [type |-> "publish", off |-> 0, len |-> 0,
                        qos |-> IF pss.state = STATE_PUBLISH_QOS0
                                THEN QOS0 ELSE QOS1,
                        final |-> TRUE, ok |-> TRUE]
             /\ ret' = 0
             /\ pss'.state = pss.state + 1
             /\ pss'.state \in {STATE_WAIT_ACK0, STATE_WAIT_ACK1}
             /\ msg' = <<[off |-> 0, len |-> 0, qos |-> act'.qos,
                          final |-> TRUE]>>)]_vars

C12_Witness ==
    /\ payload_len = 0
    /\ pss.state = STATE_WAIT_ACK1
    /\ act.type = "publish"
    /\ act.len = 0
    /\ act.final
    /\ stage = 4

C14_RetriesOnlyInWaitAck1 ==
    [][pss'.retries # pss.retries => pss.state = STATE_WAIT_ACK1]_vars

\* C15: an ack in STATE_WAIT_ACK0 moves the session to STATE_PUBLISH_QOS1
\* without a send and without touching bad or interrupted; the session
\* enters STATE_TEST_FINISH, and bad is cleared, only by an ack handled in
\* STATE_WAIT_ACK1.
C15_AckTransitions ==
    /\ [](bad = 0 <=> pss.state = STATE_TEST_FINISH)
    /\ [][(pss.state = STATE_WAIT_ACK0 /\ Service("ACK", FALSE)) =>
            (/\ pss' = [pss EXCEPT !.state = STATE_PUBLISH_QOS1]
             /\ act' = NoAct
             /\ subs' = subs
             /\ msg' = msg
             /\ bad' = bad
             /\ interrupted' = interrupted)]_vars
    /\ [][(pss'.state = STATE_TEST_FINISH /\ pss.state # STATE_TEST_FINISH) =>
            (/\ pss.state = STATE_WAIT_ACK1
             /\ ev' = "ACK"
             /\ bad' = 0
             /\ interrupted' = 1)]_vars
    /\ [][bad' # bad => (pss.state = STATE_WAIT_ACK1 /\ ev' = "ACK")]_vars

C15_Witness ==
    /\ pss.state = STATE_PUBLISH_QOS1
    /\ ev = "ACK"
    /\ stage = 3
    /\ bad = 1
    /\ interrupted = 0

\* C16: pos stays within [0, payload length], and every chunk handed to the
\* publish primitive is at most 300 bytes long and ends inside the payload,
\* so the size_t subtraction never wraps.
C16_CursorInPayload ==
    /\ pss.pos >= 0
    /\ pss.pos <= payload_len
    /\ USub(payload_len, pss.pos) = payload_len - pss.pos
    /\ (act.type = "publish" =>
          /\ act.len <= CHUNK_MAX
          /\ act.off + act.len <= payload_len
          /\ act.off >= 0
          /\ act.len >= 0)

C16_Witness ==
    /\ act.type = "publish"
    /\ act.off = 1200
    /\ act.len = 137
    /\ act.final
    /\ pss.pos = 0

\* C17: the session state is always one of the six enum values.
C17_StateInEnum == pss.state \in STATE_SUBSCRIBE..STATE_TEST_FINISH

\* C18: pos is 0 whenever the session is not in a publishing state.
C18_CursorZeroOutsidePublish ==
    pss.state \notin {STATE_PUBLISH_QOS0, STATE_PUBLISH_QOS1} => pss.pos = 0

====
